---- MODULE Spec2Model ----
(***************************************************************************)
(* Semantic answer cache of Rag_App (modules/answer_cache.py) and the      *)
(* page code that drives it.                                               *)
(*                                                                         *)
(* Texts are sequences of blocks of HalfChars characters, so that the      *)
(* slice text[:2000] is a real operation.  Vectors are integer pairs whose *)
(* norms are whole numbers; a score is the cosine in fixed point, in units *)
(* of 1/Scale (0.85 is 8500).                                              *)
(***************************************************************************)
EXTENDS Integers, Sequences, FiniteSets, TLC

\* ---------------------------------------------------------------- bounds
MaxEntries == 2

\* ------------------------------------------------------ program constants
SIMILARITY_THRESHOLD == 8500
NearDuplicate == 9800
InvalidateDefault == 6000
MaxTextChars == 2000

\* fixed-point unit of a score and length of one text block
Scale == 100 * 100
HalfChars == MaxTextChars \div 2

None == "None"

\* ------------------------------------------------------------------ texts
WS == "   "
TP == <<"how do I center a div">>
TQ == <<"how can I center a div">>
TR == <<"center a div how">>
TD == <<"flexbox layout">>
TE == <<"sql join">>
TBlank == <<WS>>
TLong == <<"sql join", WS, "how do I center a div">>

Queries == {TP, TQ, TR}
LookupQueries == {TP, TQ, TE}
InvalidateTexts == {TQ, TD, TBlank, TLong}
Answers == {"A1", "A2"}
Categories == {"css", "js"}
Timestamps == {"t1"}
\* an optional float is <<>> (None) or <<value>>
LookupThresholds == {<<>>, <<0>>, <<NearDuplicate>>}
InvalidateThresholds == {InvalidateDefault, 7000}

\* python: len(text)
TextLen(text) == HalfChars * Len(text)

\* python: text[:n]
Slice(text, n) ==
    IF TextLen(text) <= n THEN text ELSE SubSeq(text, 1, n \div HalfChars)

\* python: text.strip() (only its emptiness is used)
StripIsEmpty(text) == \A i \in 1..Len(text) : text[i] = WS

\* python truthiness of an optional string
Truthy(x) == x # None /\ x # ""

\* ------------------------------------------------------------- embeddings
\* The provider's answer for each text it is asked about.
Embedding(text) ==
    CASE text = TP -> <<323, 36>>
      [] text = TQ -> <<325, 0>>
      [] text = TR -> <<323, -36>>
      [] text = TD -> <<195, 260>>
      [] text = TE -> <<0, 325>>
      [] text = TBlank -> <<3, 4>>
      [] text = TLong -> <<323, 36>>
      [] text = Slice(TLong, MaxTextChars) -> <<0, 325>>

Vectors == {<<323, 36>>, <<325, 0>>, <<323, -36>>, <<195, 260>>, <<0, 325>>, <<3, 4>>}

Dot(a, b) == a[1] * b[1] + a[2] * b[2]

Abs(x) == IF x < 0 THEN -x ELSE x

\* numpy: np.linalg.norm, tabulated once per vector (all norms are whole)
NormTable == [v \in Vectors |-> CHOOSE r \in 0..(Abs(v[1]) + Abs(v[2])) : r * r = Dot(v, v)]

Norm(v) == NormTable[v]

cosine_similarity(vec1, vec2) ==
    (Dot(vec1, vec2) * Scale) \div (Norm(vec1) * Norm(vec2))

\* ------------------------------------------------------------------ state
VARIABLES
    cache,      \* self.cache["entries"] of the AnswerCache instance
    file,       \* entries stored in answer_cache.json
    last,       \* the most recent call on the instance and what it returned
    page,       \* the page that drives the instance ("none": direct calls)
    created,    \* whether the page has constructed its AnswerCache
    session,    \* st.session_state["answer_<hash>"] of the search page
    flow,       \* the page's handling of the query in progress
    store,      \* the "practices" list of practices.json
    index,      \* the Chroma collection of st.session_state.chroma_manager
    ilast,      \* the most recent page action on store or index, and its result
    issued,     \* how many record ids uuid4 has produced so far
    deleted,    \* ids removed by ChromaManager.delete and not indexed since
    torn,       \* answer_cache.json holds an interrupted write (unparseable)
    drive,      \* the copy of answer_cache.json in the Drive folder
    other,      \* a second AnswerCache instance: <<>> or <<its entries>>
    elast,      \* the most recent call of get_embeddings_batch
    rebuild     \* the run of load_from_json in progress

vars == <<cache, file, last, page, created, session, flow,
          store, index, ilast, issued, deleted,
          torn, drive, other, elast, rebuild>>

pageVars == <<page, created, session, flow>>

indexVars == <<store, index, ilast, issued, deleted>>

cacheVars == <<cache, file, last, torn, drive>>

auxVars == <<other, elast, rebuild>>

NoMatch == [hit |-> FALSE]

\* queries, category choices and slider positions offered on the pages
FlowQueries == {TP, TQ}
SelectedCategories == {"all", "css"}
PageThresholds == {<<SIMILARITY_THRESHOLD>>, <<Scale>>}
SessionKeys == FlowQueries \X SelectedCategories
ErrorText == "error text"

IdleFlow ==
    [pc |-> "idle", query |-> <<>>, selected_category |-> "all", threshold |-> <<>>,
     looked |-> FALSE, cached |-> NoMatch, answer_text |-> None,
     generated |-> 0, adds |-> 0, embeds |-> 0]

\* DataManager._ensure_file_exists: a new practices.json holds no record
NoRecords ==
    /\ store = <<>>
    /\ index = <<>>
    /\ ilast = [op |-> "init"]
    /\ issued = 0
    /\ deleted = {}

\* DriveManager._authenticate without credentials: service stays None
NoDrive == [linked |-> FALSE, has |-> FALSE, entries |-> <<>>]

NoRebuild == [pc |-> "idle"]

\* no Drive service, an intact cache file, one AnswerCache instance, no call
\* of the embedding module or of load_from_json under way
PlainStart ==
    /\ torn = FALSE
    /\ drive = NoDrive
    /\ other = <<>>
    /\ elast = [op |-> "init"]
    /\ rebuild = NoRebuild

\* AnswerCache._load_cache with no cache file on disk
Init ==
    /\ cache = <<>>
    /\ file = <<>>
    /\ last = [op |-> "init"]
    /\ page = "none"
    /\ created = TRUE
    /\ session = [k \in SessionKeys |-> None]
    /\ flow = IdleFlow
    /\ NoRecords
    /\ PlainStart

\* as SaveCache, but the entries found in the file are kept next to the
\* entries written
SaveCache_Merge(entries, saveOk) ==
    IF saveOk
    THEN entries \o SelectSeq(file, LAMBDA e :
                                \A i \in 1..Len(entries) : entries[i].query # e.query)
    ELSE file

\* AnswerCache._save_cache: the whole entry list replaces the file; a write
\* error is logged and swallowed
SaveCache(entries, saveOk) == IF saveOk THEN entries ELSE file

\* as upload_cache, but the entries sent are those of the file before the
\* local write
upload_cache_Previous(entries) ==
    IF drive.linked
    THEN {[drive |-> [drive EXCEPT !.has = TRUE, !.entries = file], uploaded |-> TRUE],
          [drive |-> drive, uploaded |-> FALSE]}
    ELSE {[drive |-> drive, uploaded |-> FALSE]}

\* DriveManager.upload_cache, called by _save_cache after the local write:
\* without a Drive service nothing is sent; with one the Drive copy is
\* replaced, or the upload fails, is logged and False is returned
upload_cache(entries) ==
    IF drive.linked
    THEN {[drive |-> [drive EXCEPT !.has = TRUE, !.entries = entries], uploaded |-> TRUE],
          [drive |-> drive, uploaded |-> FALSE]}
    ELSE {[drive |-> drive, uploaded |-> FALSE]}

\* what a call of _save_cache leaves besides the entries on disk: after a
\* completed write the file parses and upload_cache has run; a write that
\* fails at open() leaves the file as it was, one that fails inside
\* json.dump leaves a partial file, and the upload is not reached
WriteOutcomes(entries, saveOk) ==
    IF saveOk
    THEN {[torn |-> FALSE, drive |-> u.drive, uploaded |-> u.uploaded] :
              u \in upload_cache(entries)}
    ELSE {[torn |-> t, drive |-> drive, uploaded |-> FALSE] : t \in {torn, TRUE}}

\* a call that does not reach _save_cache
NoWrite == [torn |-> torn, drive |-> drive, uploaded |-> FALSE]

\* as LoadCache, but an unparseable file yields the entries of the last
\* complete write
LoadCache_KeepsStale(entries, unreadable) == entries

\* AnswerCache._load_cache: a file that cannot be read or parsed is logged
\* and an empty entry list is used
LoadCache(entries, unreadable) == IF unreadable THEN <<>> ELSE entries

\* DriveManager.download_cache: with a Drive service and a Drive copy the
\* download replaces the local file, unless it fails
Downloaded(downloadOk) == drive.linked /\ drive.has /\ downloadOk

\* AnswerCache.__init__: the file after download_cache and the entries
\* _load_cache returns
Construct(downloadOk) ==
    LET got == Downloaded(downloadOk)
        unreadable == IF got THEN FALSE ELSE torn
        entries == IF got THEN drive.entries ELSE file
    IN  [file |-> entries, torn |-> unreadable, downloaded |-> got,
         entries |-> LoadCache(entries, unreadable)]

\* ------------------------------------------------------------ find_similar
\* as ScanBest, but with the category filter of invalidate_related: an entry
\* without a category is scanned too
RECURSIVE ScanBest_Permissive(_, _, _, _, _, _)
ScanBest_Permissive(entries, i, query_embedding, category, best_match, best_score) ==
    IF i > Len(entries) THEN [best_match |-> best_match, best_score |-> best_score]
    ELSE IF Truthy(category) /\ Truthy(entries[i].category) /\ entries[i].category # category
         THEN ScanBest_Permissive(entries, i + 1, query_embedding, category, best_match, best_score)
         ELSE LET score == cosine_similarity(query_embedding, entries[i].embedding)
              IN  IF score > best_score
                  THEN ScanBest_Permissive(entries, i + 1, query_embedding, category, i, score)
                  ELSE ScanBest_Permissive(entries, i + 1, query_embedding, category, best_match, best_score)

\* the for loop of find_similar from entry i on; best_match is the index of
\* the entry it refers to (0 for None)
RECURSIVE ScanBest(_, _, _, _, _, _)
ScanBest(entries, i, query_embedding, category, best_match, best_score) ==
    IF i > Len(entries) THEN [best_match |-> best_match, best_score |-> best_score]
    ELSE IF Truthy(category) /\ entries[i].category # category
         THEN ScanBest(entries, i + 1, query_embedding, category, best_match, best_score)
         ELSE LET score == cosine_similarity(query_embedding, entries[i].embedding)
              IN  IF score > best_score
                  THEN ScanBest(entries, i + 1, query_embedding, category, i, score)
                  ELSE ScanBest(entries, i + 1, query_embedding, category, best_match, best_score)

\* as FindSimilar, but returning the first scanned entry that reaches the
\* threshold instead of the best one
FindSimilar_FirstAbove(entries, query, category, threshold) ==
    LET target_threshold == IF threshold # <<>> THEN threshold[1] ELSE SIMILARITY_THRESHOLD
        above == {i \in 1..Len(entries) :
                    /\ ~(Truthy(category) /\ entries[i].category # category)
                    /\ cosine_similarity(Embedding(query), entries[i].embedding) > 0
                    /\ cosine_similarity(Embedding(query), entries[i].embedding) >= target_threshold}
    IN  IF above = {} THEN [hit |-> FALSE]
        ELSE LET k == CHOOSE i \in above : \A j \in above : i <= j
             IN  [hit |-> TRUE,
                  answer |-> entries[k].answer,
                  original_query |-> entries[k].query,
                  similarity |-> cosine_similarity(Embedding(query), entries[k].embedding),
                  created_at |-> entries[k].created_at]

\* the value find_similar returns when the embedding call succeeds
FindSimilar(entries, query, category, threshold) ==
    IF Len(entries) = 0 THEN NoMatch
    ELSE LET b == ScanBest(entries, 1, Embedding(query), category, 0, 0)
             target_threshold == IF threshold # <<>> THEN threshold[1] ELSE SIMILARITY_THRESHOLD
         IN  IF b.best_match # 0 /\ b.best_score >= target_threshold
             THEN [hit |-> TRUE,
                   answer |-> entries[b.best_match].answer,
                   original_query |-> entries[b.best_match].query,
                   similarity |-> b.best_score,
                   created_at |-> entries[b.best_match].created_at]
             ELSE NoMatch

find_similar(query, category, threshold, embedOk) ==
    /\ last' = [op |-> "find_similar", query |-> query, category |-> category,
                threshold |-> threshold,
                raised |-> Len(cache) # 0 /\ ~embedOk,
                embed_failed |-> Len(cache) # 0 /\ ~embedOk,
                embeds |-> IF Len(cache) # 0 THEN 1 ELSE 0,
                ret |-> FindSimilar(cache, query, category, threshold)]
    /\ UNCHANGED <<cache, file, torn, drive>>

\* --------------------------------------------------------------------- add
\* as FirstNearDuplicate, but only an identical vector (score 1.0) counts
RECURSIVE FirstNearDuplicate_ExactOnly(_, _, _)
FirstNearDuplicate_ExactOnly(entries, i, query_embedding) ==
    IF i > Len(entries) THEN 0
    ELSE IF cosine_similarity(query_embedding, entries[i].embedding) >= Scale
         THEN i
         ELSE FirstNearDuplicate_ExactOnly(entries, i + 1, query_embedding)

\* index of the first entry whose score against the new query is >= 0.98
\* (0 when the loop of add runs to its end)
RECURSIVE FirstNearDuplicate(_, _, _)
FirstNearDuplicate(entries, i, query_embedding) ==
    IF i > Len(entries) THEN 0
    ELSE IF cosine_similarity(query_embedding, entries[i].embedding) >= NearDuplicate
         THEN i
         ELSE FirstNearDuplicate(entries, i + 1, query_embedding)

\* as AddEntries, but the merge branch forgets to stamp updated_at
AddEntries_NoStamp(entries, query, answer, category, now) ==
    LET query_embedding == Embedding(query)
        k == FirstNearDuplicate(entries, 1, query_embedding)
    IN  IF k # 0
        THEN [entries EXCEPT ![k].answer = answer]
        ELSE Append(entries, [query |-> query, embedding |-> query_embedding,
                              answer |-> answer, category |-> category,
                              created_at |-> now, updated_at |-> None])

AddEntries(entries, query, answer, category, now) ==
    LET query_embedding == Embedding(query)
        k == FirstNearDuplicate(entries, 1, query_embedding)
    IN  IF k # 0
        THEN [entries EXCEPT ![k].answer = answer, ![k].updated_at = now]
        ELSE Append(entries, [query |-> query, embedding |-> query_embedding,
                              answer |-> answer, category |-> category,
                              created_at |-> now, updated_at |-> None])

\* as add, but a failed write of the file undoes the change in memory
add_RollsBack(query, answer, category, now, embedOk, saveOk) ==
    IF ~embedOk
    THEN /\ last' = [op |-> "add", query |-> query, answer |-> answer,
                     category |-> category, raised |-> TRUE,
                     embed_failed |-> TRUE, embeds |-> 1]
         /\ UNCHANGED <<cache, file, torn, drive>>
    ELSE LET entries == AddEntries(cache, query, answer, category, now)
         IN  /\ Len(entries) <= MaxEntries
             /\ cache' = IF saveOk THEN entries ELSE cache
             /\ file' = SaveCache(entries, saveOk)
             /\ \E w \in WriteOutcomes(entries, saveOk) :
                    /\ torn' = w.torn
                    /\ drive' = w.drive
                    /\ last' = [op |-> "add", query |-> query, answer |-> answer,
                                category |-> category, raised |-> FALSE,
                                embed_failed |-> FALSE, embeds |-> 1,
                                wrote |-> TRUE, saved |-> saveOk,
                                uploaded |-> w.uploaded,
                                torn_before |-> torn,
                                count_before |-> Len(cache),
                                after_add |-> IF last.op = "add" /\ ~last.raised
                                              THEN last.query ELSE <<>>]

add(query, answer, category, now, embedOk, saveOk) ==
    IF ~embedOk
    THEN /\ last' = [op |-> "add", query |-> query, answer |-> answer,
                     category |-> category, raised |-> TRUE,
                     embed_failed |-> TRUE, embeds |-> 1]
         /\ UNCHANGED <<cache, file, torn, drive>>
    ELSE LET entries == AddEntries(cache, query, answer, category, now)
         IN  /\ Len(entries) <= MaxEntries
             /\ cache' = entries
             /\ file' = SaveCache(entries, saveOk)
             /\ \E w \in WriteOutcomes(entries, saveOk) :
                    /\ torn' = w.torn
                    /\ drive' = w.drive
                    /\ last' = [op |-> "add", query |-> query, answer |-> answer,
                                category |-> category, raised |-> FALSE,
                                embed_failed |-> FALSE, embeds |-> 1,
                                wrote |-> TRUE, saved |-> saveOk,
                                uploaded |-> w.uploaded,
                                torn_before |-> torn,
                                count_before |-> Len(cache),
                                after_add |-> IF last.op = "add" /\ ~last.raised
                                              THEN last.query ELSE <<>>]

\* ------------------------------------------------------------------- clear
\* as clear, but without the call of _save_cache
clear_NoSave(saveOk) ==
    /\ cache' = <<>>
    /\ file' = file
    /\ torn' = torn
    /\ drive' = drive
    /\ last' = [op |-> "clear", raised |-> FALSE, wrote |-> FALSE, saved |-> FALSE,
                uploaded |-> FALSE, count_before |-> Len(cache)]

clear(saveOk) ==
    /\ cache' = <<>>
    /\ file' = SaveCache(<<>>, saveOk)
    /\ \E w \in WriteOutcomes(<<>>, saveOk) :
           /\ torn' = w.torn
           /\ drive' = w.drive
           /\ last' = [op |-> "clear", raised |-> FALSE, wrote |-> TRUE,
                       saved |-> saveOk, uploaded |-> w.uploaded,
                       count_before |-> Len(cache)]

\* ------------------------------------------------------ invalidate_related
\* as ScanInvalidate, but an entry is deleted only above the threshold
RECURSIVE ScanInvalidate_Strict(_, _, _, _, _, _, _)
ScanInvalidate_Strict(entries, i, text_embedding, category, threshold, entries_to_keep, deleted_count) ==
    IF i > Len(entries)
    THEN [entries_to_keep |-> entries_to_keep, deleted_count |-> deleted_count]
    ELSE IF Truthy(category) /\ Truthy(entries[i].category) /\ entries[i].category # category
         THEN ScanInvalidate_Strict(entries, i + 1, text_embedding, category, threshold,
                                    Append(entries_to_keep, entries[i]), deleted_count)
         ELSE IF cosine_similarity(text_embedding, entries[i].embedding) > threshold
              THEN ScanInvalidate_Strict(entries, i + 1, text_embedding, category, threshold,
                                         entries_to_keep, deleted_count + 1)
              ELSE ScanInvalidate_Strict(entries, i + 1, text_embedding, category, threshold,
                                         Append(entries_to_keep, entries[i]), deleted_count)

\* as ScanInvalidate, but with the category filter of find_similar: only
\* entries of the given category are candidates
RECURSIVE ScanInvalidate_SameCategory(_, _, _, _, _, _, _)
ScanInvalidate_SameCategory(entries, i, text_embedding, category, threshold, entries_to_keep, deleted_count) ==
    IF i > Len(entries)
    THEN [entries_to_keep |-> entries_to_keep, deleted_count |-> deleted_count]
    ELSE IF Truthy(category) /\ entries[i].category # category
         THEN ScanInvalidate_SameCategory(entries, i + 1, text_embedding, category, threshold,
                                          Append(entries_to_keep, entries[i]), deleted_count)
         ELSE IF cosine_similarity(text_embedding, entries[i].embedding) >= threshold
              THEN ScanInvalidate_SameCategory(entries, i + 1, text_embedding, category, threshold,
                                               entries_to_keep, deleted_count + 1)
              ELSE ScanInvalidate_SameCategory(entries, i + 1, text_embedding, category, threshold,
                                               Append(entries_to_keep, entries[i]), deleted_count)

\* the for loop of invalidate_related from entry i on
RECURSIVE ScanInvalidate(_, _, _, _, _, _, _)
ScanInvalidate(entries, i, text_embedding, category, threshold, entries_to_keep, deleted_count) ==
    IF i > Len(entries)
    THEN [entries_to_keep |-> entries_to_keep, deleted_count |-> deleted_count]
    ELSE IF Truthy(category) /\ Truthy(entries[i].category) /\ entries[i].category # category
         THEN ScanInvalidate(entries, i + 1, text_embedding, category, threshold,
                             Append(entries_to_keep, entries[i]), deleted_count)
         ELSE IF cosine_similarity(text_embedding, entries[i].embedding) >= threshold
              THEN ScanInvalidate(entries, i + 1, text_embedding, category, threshold,
                                  entries_to_keep, deleted_count + 1)
              ELSE ScanInvalidate(entries, i + 1, text_embedding, category, threshold,
                                  Append(entries_to_keep, entries[i]), deleted_count)

invalidate_related(text, category, threshold, embedOk, saveOk) ==
    LET skipped == Len(cache) = 0 \/ StripIsEmpty(text) \/ ~embedOk
        r == ScanInvalidate(cache, 1, Embedding(Slice(text, MaxTextChars)), category,
                            threshold, <<>>, 0)
        deleted_count == IF skipped THEN 0 ELSE r.deleted_count
    IN  /\ cache' = IF deleted_count > 0 THEN r.entries_to_keep ELSE cache
        /\ file' = IF deleted_count > 0 THEN SaveCache(r.entries_to_keep, saveOk) ELSE file
        /\ \E w \in IF deleted_count > 0 THEN WriteOutcomes(r.entries_to_keep, saveOk)
                                          ELSE {NoWrite} :
               /\ torn' = w.torn
               /\ drive' = w.drive
               /\ last' = [op |-> "invalidate_related", text |-> text,
                           category |-> category, threshold |-> threshold,
                           raised |-> FALSE,
                           embed_failed |-> Len(cache) # 0 /\ ~StripIsEmpty(text) /\ ~embedOk,
                           wrote |-> deleted_count > 0,
                           saved |-> deleted_count > 0 /\ saveOk,
                           uploaded |-> w.uploaded,
                           ret |-> deleted_count]

\* ------------------------------------------------------------------- specs
OptCategories == Categories \cup {None}

DoFind == /\ \E q \in LookupQueries, c \in {None, "css"}, t \in LookupThresholds :
                 find_similar(q, c, t, TRUE)
          /\ UNCHANGED <<pageVars, indexVars, auxVars>>

DoAdd == /\ \E q \in Queries, a \in Answers, c \in OptCategories, now \in Timestamps :
                add(q, a, c, now, TRUE, TRUE)
         /\ UNCHANGED <<pageVars, indexVars, auxVars>>

DoClear == clear(TRUE) /\ UNCHANGED <<pageVars, indexVars, auxVars>>

DoInvalidate == /\ \E x \in InvalidateTexts, c \in {None, "css"}, t \in InvalidateThresholds :
                       invalidate_related(x, c, t, TRUE, TRUE)
                /\ UNCHANGED <<pageVars, indexVars, auxVars>>

Next == DoFind \/ DoAdd \/ DoClear \/ DoInvalidate

Spec == Init /\ [][Next]_vars

\* ------------------------------------------------------------------ pages
\* pages/1 line 508: the category handed to the cache
CategoryArg(selected_category) ==
    IF selected_category # "all" THEN selected_category ELSE None

\* as AfterLookup, but the result of the lookup is ignored
AfterLookup_AlwaysGenerate(cached) == "generate"

\* pages/1 line 512 and pages/7 line 803: if cached
AfterLookup(cached) == IF cached.hit THEN "hit" ELSE "generate"

\* search page, lines 494-503: the answer of the same query and category is
\* taken from the session when it is there
SubmitFlow(query, selected_category, cache_threshold) ==
    IF session[<<query, selected_category>>] # None
    THEN [IdleFlow EXCEPT !.pc = "done", !.query = query,
                          !.selected_category = selected_category,
                          !.threshold = cache_threshold,
                          !.answer_text = session[<<query, selected_category>>]]
    ELSE [IdleFlow EXCEPT !.pc = "lookup", !.query = query,
                          !.selected_category = selected_category,
                          !.threshold = cache_threshold]

\* search page, lines 494-503: a new query arrives
SearchSubmit(query, selected_category, cache_threshold) ==
    /\ page = "search" /\ flow.pc = "idle"
    /\ flow' = SubmitFlow(query, selected_category, cache_threshold)
    /\ UNCHANGED <<cache, file, torn, drive, last, page, created, session>>
    /\ UNCHANGED <<indexVars, auxVars>>

\* code-learning page, lines 793-800: a question arrives; the page's
\* AnswerCache is constructed from the file on first use
CodeAsk(cache_query, cache_threshold) ==
    /\ page = "code" /\ flow.pc = "idle"
    /\ created' = TRUE
    /\ cache' = IF created THEN cache ELSE Construct(TRUE).entries
    /\ file' = IF created THEN file ELSE Construct(TRUE).file
    /\ torn' = IF created THEN torn ELSE Construct(TRUE).torn
    /\ flow' = [IdleFlow EXCEPT !.pc = "lookup", !.query = cache_query,
                                !.threshold = cache_threshold]
    /\ UNCHANGED <<drive, last, page, session>>
    /\ UNCHANGED <<indexVars, auxVars>>

\* pages/1 lines 505-512, pages/7 lines 801-803: the cache lookup
Lookup(embedOk) ==
    /\ flow.pc = "lookup"
    /\ find_similar(flow.query, CategoryArg(flow.selected_category), flow.threshold, embedOk)
    /\ flow' = IF last'.raised
               THEN [flow EXCEPT !.pc = "error", !.embeds = @ + last'.embeds]
               ELSE [flow EXCEPT !.pc = AfterLookup(last'.ret), !.looked = TRUE,
                                 !.cached = last'.ret, !.embeds = @ + last'.embeds]
    /\ UNCHANGED <<page, created, session>>
    /\ UNCHANGED <<indexVars, auxVars>>

\* pages/1 lines 513-518, pages/7 lines 804-813: the stored answer is used
UseCached ==
    /\ flow.pc = "hit"
    /\ flow' = [flow EXCEPT !.pc = "done", !.answer_text = flow.cached.answer]
    /\ session' = IF page = "search"
                  THEN [session EXCEPT ![<<flow.query, flow.selected_category>>] =
                                           flow.cached.answer]
                  ELSE session
    /\ UNCHANGED <<cache, file, torn, drive, last, page, created>>
    /\ UNCHANGED <<indexVars, auxVars>>

\* pages/1 lines 521-530, pages/7 lines 815-822: the generation service is
\* called; when it fails both pages get a text that reports the error
Generate(answer, genOk) ==
    /\ flow.pc = "generate"
    /\ LET answer_text == IF genOk THEN answer ELSE ErrorText
       IN  /\ flow' = [flow EXCEPT !.pc = "write", !.answer_text = answer_text,
                                    !.generated = @ + 1]
           /\ session' = IF page = "search"
                         THEN [session EXCEPT ![<<flow.query, flow.selected_category>>] =
                                                  answer_text]
                         ELSE session
    /\ UNCHANGED <<cache, file, torn, drive, last, page, created>>
    /\ UNCHANGED <<indexVars, auxVars>>

\* pages/1 lines 532-538, pages/7 lines 846-854: the answer is stored
Write(now, embedOk, saveOk) ==
    /\ flow.pc = "write"
    /\ add(flow.query, flow.answer_text, CategoryArg(flow.selected_category),
           now, embedOk, saveOk)
    /\ flow' = [flow EXCEPT !.pc = IF embedOk THEN "done" ELSE "error", !.adds = @ + 1,
                            !.embeds = @ + last'.embeds]
    /\ UNCHANGED <<page, created, session>>
    /\ UNCHANGED <<indexVars, auxVars>>

\* the script run ends: the answer (or the error) is on the page
Finish ==
    /\ flow.pc \in {"done", "error"}
    /\ flow' = IdleFlow
    /\ UNCHANGED <<cache, file, torn, drive, last, page, created, session>>
    /\ UNCHANGED <<indexVars, auxVars>>

\* a session on the search page or on the code-learning page; the search
\* page constructs its AnswerCache when it is loaded (line 187)
PageInit ==
    /\ cache = <<>>
    /\ file = <<>>
    /\ last = [op |-> "init"]
    /\ page \in {"search", "code"}
    /\ created = (page = "search")
    /\ session = [k \in SessionKeys |-> None]
    /\ flow = IdleFlow
    /\ NoRecords
    /\ PlainStart

DoSearchSubmit == \E q \in FlowQueries, c \in SelectedCategories, t \in PageThresholds :
                      SearchSubmit(q, c, t)

DoCodeAsk == \E q \in FlowQueries, t \in PageThresholds : CodeAsk(q, t)

DoLookup == Lookup(TRUE)

DoGenerate == \E a \in Answers : Generate(a, TRUE)

DoWrite == \E now \in Timestamps : Write(now, TRUE, TRUE)

PageNext == DoSearchSubmit \/ DoCodeAsk \/ DoLookup \/ UseCached \/ DoGenerate
            \/ DoWrite \/ Finish

PageSpec == PageInit /\ [][PageNext]_vars

\* ------------------------------------------------- pages, providers failing
\* the same pages when the embedding call, the generation call or the write
\* of answer_cache.json may fail
FaultLookup == \E embedOk \in BOOLEAN : Lookup(embedOk)

FaultGenerate == \E a \in Answers, genOk \in BOOLEAN : Generate(a, genOk)

FaultWrite == \E now \in Timestamps, embedOk \in BOOLEAN, saveOk \in BOOLEAN :
                  Write(now, embedOk, saveOk)

PageFaultNext == DoSearchSubmit \/ DoCodeAsk \/ FaultLookup \/ UseCached
                 \/ FaultGenerate \/ FaultWrite \/ Finish

PageFaultSpec == PageInit /\ [][PageFaultNext]_vars

\* ----------------------------------------------------------- record store
\* how many record ids uuid4 issues within one session
MaxIds == 2

SEARCH_TOP_K == 5
MinScoreDefault == 4000

\* python truthiness of a string field that may be missing
Filled(x) == x # None /\ x # ""

\* the practice dicts the registration pages build (no id yet)
JsPhoto ==
    [title |-> TD, description |-> <<>>, category |-> "js",
     generated_svg |-> None, generated_html |-> None, image_path |-> "img.png"]

CssDiagram ==
    [title |-> TE, description |-> <<WS, "how do I center a div">>, category |-> "css",
     generated_svg |-> "<svg/>", generated_html |-> None, image_path |-> None]

HtmlPreview ==
    [title |-> TQ, description |-> <<>>, category |-> "css",
     generated_svg |-> None, generated_html |-> "<html/>", image_path |-> None]

NewPractices == {HtmlPreview, JsPhoto, CssDiagram}

WithId(practice, id) ==
    [id |-> id, title |-> practice.title, description |-> practice.description,
     category |-> practice.category, generated_svg |-> practice.generated_svg,
     generated_html |-> practice.generated_html, image_path |-> practice.image_path]

StoreIds(practices) == {practices[i].id : i \in 1..Len(practices)}

\* DataManager.add: the record gets its id and goes to the end of the list
DataAdd(practices, practice, id) == Append(practices, WithId(practice, id))

\* DataManager.get_by_id: the first record with that id, or None
GetById(practices, practice_id) ==
    IF practice_id \in StoreIds(practices)
    THEN practices[CHOOSE i \in 1..Len(practices) :
                       /\ practices[i].id = practice_id
                       /\ \A j \in 1..(i - 1) : practices[j].id # practice_id]
    ELSE None

\* DataManager.update with {"title": ...}: the first record with that id
DataUpdateTitle(practices, practice_id, title) ==
    [i \in 1..Len(practices) |->
        IF practices[i].id = practice_id
           /\ \A j \in 1..(i - 1) : practices[j].id # practice_id
        THEN [practices[i] EXCEPT !.title = title]
        ELSE practices[i]]

\* DataManager.update with {"generated_svg": ...}
DataUpdateSvg(practices, practice_id, svg) ==
    [i \in 1..Len(practices) |->
        IF practices[i].id = practice_id
           /\ \A j \in 1..(i - 1) : practices[j].id # practice_id
        THEN [practices[i] EXCEPT !.generated_svg = svg]
        ELSE practices[i]]

\* DataManager.delete: every record with that id leaves the list
DataDelete(practices, practice_id) ==
    SelectSeq(practices, LAMBDA p : p.id # practice_id)

\* ------------------------------------------------------ Chroma collection
\* chromadb is a library: the collection is modelled by its documented
\* behaviour.  Entries are kept in insertion order.
CollectionIds(coll) == {coll[i].id : i \in 1..Len(coll)}

\* Collection.add: an id that is already in the collection is not inserted
\* again and its stored entry is left as it is
RECURSIVE CollectionAdd(_, _)
CollectionAdd(coll, entries) ==
    IF entries = <<>> THEN coll
    ELSE CollectionAdd(IF Head(entries).id \in CollectionIds(coll)
                       THEN coll
                       ELSE Append(coll, Head(entries)),
                       Tail(entries))

\* Collection.delete(ids=...): ids that are not there are ignored
CollectionDelete(coll, ids) == SelectSeq(coll, LAMBDA e : e.id \notin ids)

\* the where clauses the manager uses
NoWhere == [kind |-> "none"]
WhereCategory(c) == [kind |-> "category", category |-> c]
WhereVisual == [kind |-> "visual"]
WhereImage == [kind |-> "image"]

Matches(where, metadata) ==
    CASE where.kind = "none" -> TRUE
      [] where.kind = "category" -> metadata.category = where.category
      [] where.kind = "visual" -> metadata.has_svg \/ metadata.has_html
      [] where.kind = "image" -> metadata.has_image

\* hnsw:space cosine: the distance of two vectors
Distance(a, b) == Scale - cosine_similarity(a, b)

Min(a, b) == IF a < b THEN a ELSE b

\* Collection.query: the entries that satisfy where, nearest first, at most
\* n_results of them.  The order among equal distances is not specified, so
\* every order is a possible answer; an answer is a sequence of positions.
CollectionQuery(coll, query_embedding, n_results, where) ==
    LET elig == {i \in 1..Len(coll) : Matches(where, coll[i].metadata)}
        m == Min(n_results, Cardinality(elig))
        d(i) == Distance(query_embedding, coll[i].embedding)
    IN  {r \in [1..m -> elig] :
            /\ \A a, b \in 1..m : a < b => (r[a] # r[b] /\ d(r[a]) <= d(r[b]))
            /\ \A i \in elig : (\A a \in 1..m : r[a] # i)
                                  => \A a \in 1..m : d(r[a]) <= d(i)}

\* ------------------------------------------------------------ ChromaManager
\* _create_search_text: title, description and tags, empty parts dropped
\* (the registered records carry no tags)
CreateSearchText(practice) ==
    LET parts == <<practice.title, practice.description>>
        kept == SelectSeq(parts, LAMBDA x : x # <<>>)
    IN  IF Len(kept) = 0 THEN <<>>
        ELSE IF Len(kept) = 1 THEN kept[1]
        ELSE kept[1] \o kept[2]

MetadataOf(practice) ==
    [title |-> practice.title, category |-> practice.category,
     has_svg |-> Filled(practice.generated_svg),
     has_html |-> Filled(practice.generated_html),
     has_image |-> Filled(practice.image_path)]

IndexEntry(practice) ==
    [id |-> practice.id,
     embedding |-> Embedding(CreateSearchText(practice)),
     metadata |-> MetadataOf(practice),
     document |-> CreateSearchText(practice)]

\* ChromaManager.add_practice: embeds the search text and calls collection.add
add_practice(coll, practice) == CollectionAdd(coll, <<IndexEntry(practice)>>)

\* ChromaManager.load_from_json: nothing is done when the store is empty;
\* otherwise the collection is emptied and every record is inserted
load_from_json(coll, practices) ==
    IF practices = <<>> THEN coll
    ELSE CollectionAdd(CollectionDelete(coll, CollectionIds(coll)),
                       [i \in 1..Len(practices) |-> IndexEntry(practices[i])])

\* as delete, but the collection is left as it is
delete_Keeps(coll, practice_id) == coll

\* ChromaManager.delete
delete(coll, practice_id) == CollectionDelete(coll, {practice_id})

\* one formatted result of search: score = 1 - distance
ResultOf(coll, i, query_embedding) ==
    LET distance == Distance(query_embedding, coll[i].embedding)
    IN  [id |-> coll[i].id, metadata |-> coll[i].metadata,
         document |-> coll[i].document, distance |-> distance,
         score |-> Scale - distance]

\* as search, but the category is tested on the top_k nearest entries of the
\* whole collection instead of being handed to the query
search_PostFilter(coll, query, category, top_k) ==
    LET n == IF top_k = 0 THEN SEARCH_TOP_K ELSE top_k
        query_embedding == Embedding(query)
    IN  {SelectSeq([a \in 1..Len(r) |-> ResultOf(coll, r[a], query_embedding)],
                   LAMBDA x : (Filled(category) /\ category # "all")
                                 => x.metadata.category = category) :
            r \in CollectionQuery(coll, query_embedding, n, NoWhere)}

\* ChromaManager.search: the possible result lists
search(coll, query, category, top_k) ==
    LET n == IF top_k = 0 THEN SEARCH_TOP_K ELSE top_k
        query_embedding == Embedding(query)
        where == IF Filled(category) /\ category # "all"
                 THEN WhereCategory(category) ELSE NoWhere
    IN  {[a \in 1..Len(r) |-> ResultOf(coll, r[a], query_embedding)] :
            r \in CollectionQuery(coll, query_embedding, n, where)}

\* the loop of search_visuals and search_images: results under min_score
\* are left out
AtLeast_KeepsAll(results, min_score) == results

AtLeast(results, min_score) == SelectSeq(results, LAMBDA x : x.score >= min_score)

\* ChromaManager.search_visuals
search_visuals(coll, query, min_score, top_k) ==
    LET query_embedding == Embedding(query)
    IN  {AtLeast([a \in 1..Len(r) |-> ResultOf(coll, r[a], query_embedding)], min_score) :
            r \in CollectionQuery(coll, query_embedding, top_k, WhereVisual)}

\* ChromaManager.search_images
search_images(coll, query, min_score, top_k) ==
    LET query_embedding == Embedding(query)
    IN  {AtLeast([a \in 1..Len(r) |-> ResultOf(coll, r[a], query_embedding)], min_score) :
            r \in CollectionQuery(coll, query_embedding, top_k, WhereImage)}

\* ------------------------------------------------ pages that write records
IndexQueries == {TQ, TE}
SearchCategories == {None, "css"}
TopKs == {0, 1}
MinScores == {MinScoreDefault, 7000}
EditTitles == {TE}

\* pages/2 lines 209-213 (and pages/1 756-758, pages/4 356-358): the new
\* record is stored and then indexed
RegisterSave(practice) ==
    /\ issued < MaxIds
    /\ LET practice_id == issued + 1
       IN  /\ store' = DataAdd(store, practice, practice_id)
           /\ index' = add_practice(index, WithId(practice, practice_id))
           /\ issued' = practice_id
           /\ deleted' = deleted \ {practice_id}
           /\ ilast' = [op |-> "register", id |-> practice_id]
    /\ UNCHANGED <<cacheVars, pageVars, auxVars>>

\* pages/3 lines 440-457: the edit form is saved and the record is handed
\* to add_practice again
EditSave(practice_id, new_title) ==
    /\ practice_id \in StoreIds(store)
    /\ LET practices == DataUpdateTitle(store, practice_id, new_title)
       IN  /\ store' = practices
           /\ index' = add_practice(index, GetById(practices, practice_id))
           /\ ilast' = [op |-> "edit", id |-> practice_id]
    /\ deleted' = deleted \ {practice_id}
    /\ UNCHANGED <<issued, cacheVars, pageVars, auxVars>>

\* pages/3 lines 325-336: a diagram is generated for the record, stored, and
\* the record is handed to add_practice again
GenerateSvg(practice_id) ==
    /\ practice_id \in StoreIds(store)
    /\ LET practices == DataUpdateSvg(store, practice_id, "<svg/>")
       IN  /\ store' = practices
           /\ index' = add_practice(index, GetById(practices, practice_id))
           /\ ilast' = [op |-> "generate_svg", id |-> practice_id]
    /\ deleted' = deleted \ {practice_id}
    /\ UNCHANGED <<issued, cacheVars, pageVars, auxVars>>

\* pages/3 lines 410-414 (and pages/1 1120-1121): the record is deleted from
\* the store and from the index
DeleteRecord(practice_id) ==
    /\ practice_id \in StoreIds(store)
    /\ store' = DataDelete(store, practice_id)
    /\ index' = delete(index, practice_id)
    /\ deleted' = deleted \cup {practice_id}
    /\ ilast' = [op |-> "delete", id |-> practice_id]
    /\ UNCHANGED <<issued, cacheVars, pageVars, auxVars>>

\* pages/1 lines 462-465: every new item gets a uuid and is stored
RECURSIVE AddItems(_, _, _)
AddItems(practices, new_items, n) ==
    IF new_items = <<>> THEN practices
    ELSE AddItems(DataAdd(practices, Head(new_items), n + 1), Tail(new_items), n + 1)

\* pages/1 lines 461-474: a record opened from the search results is split;
\* the new items are stored, the original is deleted from store and index
SplitRegister(practice_id, new_items) ==
    /\ practice_id \in StoreIds(store) /\ practice_id \in CollectionIds(index)
    /\ issued + Len(new_items) <= MaxIds
    /\ store' = DataDelete(AddItems(store, new_items, issued), practice_id)
    /\ index' = delete(index, practice_id)
    /\ issued' = issued + Len(new_items)
    /\ deleted' = deleted \cup {practice_id}
    /\ ilast' = [op |-> "split", id |-> practice_id]
    /\ UNCHANGED <<cacheVars, pageVars, auxVars>>

\* pages/5 lines 249-255: the resync button
Resync ==
    /\ index' = load_from_json(index, store)
    /\ deleted' = IF store = <<>> THEN deleted ELSE deleted \ StoreIds(store)
    /\ ilast' = [op |-> "resync", count |-> Len(store)]
    /\ UNCHANGED <<store, issued, cacheVars, pageVars, auxVars>>

\* pages/3 lines 410-412 run in another browser session: st.session_state,
\* and with it the ChromaManager, is per session, practices.json is shared
OtherSessionDelete(practice_id) ==
    /\ practice_id \in StoreIds(store)
    /\ store' = DataDelete(store, practice_id)
    /\ ilast' = [op |-> "other_delete", id |-> practice_id]
    /\ UNCHANGED <<index, issued, deleted, cacheVars, pageVars, auxVars>>

\* pages/1 lines 229-235
Search(query, category, top_k) ==
    /\ \E results \in search(index, query, category, top_k) :
          ilast' = [op |-> "search", query |-> query, category |-> category,
                    top_k |-> top_k, results |-> results]
    /\ UNCHANGED <<store, index, issued, deleted, cacheVars, pageVars, auxVars>>

\* pages/1 lines 585-589
SearchVisuals(query, min_score, top_k) ==
    /\ \E results \in search_visuals(index, query, min_score, top_k) :
          ilast' = [op |-> "search_visuals", query |-> query, min_score |-> min_score,
                    top_k |-> top_k, results |-> results]
    /\ UNCHANGED <<store, index, issued, deleted, cacheVars, pageVars, auxVars>>

\* pages/1 lines 600-604
SearchImages(query, min_score, top_k) ==
    /\ \E results \in search_images(index, query, min_score, top_k) :
          ilast' = [op |-> "search_images", query |-> query, min_score |-> min_score,
                    top_k |-> top_k, results |-> results]
    /\ UNCHANGED <<store, index, issued, deleted, cacheVars, pageVars, auxVars>>

\* pages/1 lines 174-181: the session starts on a page that builds its
\* ChromaManager from practices.json
IndexInit ==
    /\ cache = <<>>
    /\ file = <<>>
    /\ last = [op |-> "init"]
    /\ page = "none"
    /\ created = TRUE
    /\ session = [k \in SessionKeys |-> None]
    /\ flow = IdleFlow
    /\ store \in {<<>>, <<WithId(HtmlPreview, 1)>>}
    /\ index = load_from_json(<<>>, store)
    /\ ilast = [op |-> "init"]
    /\ issued = Len(store)
    /\ deleted = {}
    /\ PlainStart

DoRegisterSave == \E practice \in NewPractices : RegisterSave(practice)

DoEditSave == \E practice_id \in 1..MaxIds, new_title \in EditTitles :
                  EditSave(practice_id, new_title)

DoGenerateSvg == \E practice_id \in 1..MaxIds : GenerateSvg(practice_id)

DoDeleteRecord == \E practice_id \in 1..MaxIds : DeleteRecord(practice_id)

DoSplitRegister == \E practice_id \in 1..MaxIds, item \in NewPractices :
                       SplitRegister(practice_id, <<item>>)

DoOtherSessionDelete == \E practice_id \in 1..MaxIds : OtherSessionDelete(practice_id)

DoSearch == \E query \in IndexQueries, category \in SearchCategories, top_k \in TopKs :
                Search(query, category, top_k)

DoSearchVisuals == \E query \in IndexQueries, min_score \in MinScores :
                       SearchVisuals(query, min_score, 1)

DoSearchImages == \E query \in IndexQueries, min_score \in MinScores :
                      SearchImages(query, min_score, 1)

\* one session: records are written and the index is queried
IndexNext == DoRegisterSave \/ DoEditSave \/ DoDeleteRecord \/ DoSplitRegister
             \/ Resync \/ DoSearch \/ DoSearchVisuals \/ DoSearchImages

IndexSpec == IndexInit /\ [][IndexNext]_vars

\* the writes of this session and of another session on the same
\* practices.json
SharedStoreNext == DoRegisterSave \/ DoEditSave \/ DoGenerateSvg \/ DoDeleteRecord
                   \/ DoSplitRegister \/ Resync \/ DoOtherSessionDelete

SharedStoreSpec == IndexInit /\ [][SharedStoreNext]_vars

\* -------------------------------------------- answers and record writes
\* one session in which answers are cached and served (pages/1 505-537)
\* while records are registered and edited (pages/2 209-213, pages/3 440-457)
DoCacheAnswer == /\ \E a \in Answers, now \in Timestamps :
                        add(TQ, a, None, now, TRUE, TRUE)
                 /\ UNCHANGED <<pageVars, indexVars, auxVars>>

DoServe == /\ \E q \in {TQ, TE} : find_similar(q, None, <<>>, TRUE)
           /\ UNCHANGED <<pageVars, indexVars, auxVars>>

KnowledgeNext == DoCacheAnswer \/ DoServe \/ DoRegisterSave \/ DoEditSave

KnowledgeSpec == IndexInit /\ [][KnowledgeNext]_vars

\* ------------------------------------------------------- shared vocabulary
\* threshold values the properties range over (0.85 default, 0.98, ties at
\* 0.9938, the 0.9755 pair, zero and a negative one)
ThresholdValues == {0 - 1000, 0, 5000, SIMILARITY_THRESHOLD, 9755, NearDuplicate, 9938, Scale}

OptThresholds == {<<>>} \cup {<<t>> : t \in ThresholdValues}

Target(threshold) == IF threshold = <<>> THEN SIMILARITY_THRESHOLD ELSE threshold[1]

Score(text, entry) == cosine_similarity(Embedding(text), entry.embedding)

SetMax(S) == CHOOSE m \in S : \A x \in S : x <= m

SetMin(S) == CHOOSE m \in S : \A x \in S : m <= x

HitOf(entry, score) ==
    [hit |-> TRUE, answer |-> entry.answer, original_query |-> entry.query,
     similarity |-> score, created_at |-> entry.created_at]

\* the entries find_similar scans for a category
Eligible(entries, category) ==
    {i \in 1..Len(entries) : ~Truthy(category) \/ entries[i].category = category}

\* the result the contract of find_similar describes: the first entry, in
\* insertion order, with the maximal score among the eligible ones, returned
\* exactly when that score reaches the threshold
BestMatchContract(entries, query, category, threshold) ==
    LET el == Eligible(entries, category)
    IN  IF el = {} THEN NoMatch
        ELSE LET m == SetMax({Score(query, entries[i]) : i \in el})
                 first == SetMin({i \in el : Score(query, entries[i]) = m})
             IN  IF m >= Target(threshold) THEN HitOf(entries[first], m) ELSE NoMatch

FindReturned == last.op = "find_similar" /\ ~last.raised

\* ----------------------------------------------------------------- C1
\* C1: find_similar(q, category, t) returns the first entry in insertion
\* order with the maximal cosine similarity among the eligible entries
\* exactly when that maximal score is >= t, and no match otherwise, for every
\* threshold t and every cache content.
C1_BestMatchForEveryThreshold ==
    FindReturned =>
        last.ret = BestMatchContract(cache, last.query, last.category, last.threshold)

\* ----------------------------------------------------------------- C2
\* C2: starting from an empty cache, after any sequence of add,
\* invalidate_related and clear, no two distinct entries have cosine
\* similarity >= 0.98 between their stored query vectors.
C2_NoNearDuplicatePair ==
    \A i, j \in 1..Len(cache) :
        i # j => cosine_similarity(cache[i].embedding, cache[j].embedding) < NearDuplicate

\* an add was merged into one of two stored entries
C2_Witness ==
    /\ Len(cache) = 2
    /\ last.op = "add" /\ ~last.raised
    /\ last.count_before = 2
    /\ \E i \in 1..2 : cache[i].updated_at # None /\ cache[i].query # last.query

\* ----------------------------------------------------------------- C3
NearDup(t1, t2) == cosine_similarity(Embedding(t1), Embedding(t2)) >= NearDuplicate

\* the entries that stand for t1 or t2: those within 0.98 of either
ClusterOf(entries, t1, t2) ==
    {i \in 1..Len(entries) : Score(t1, entries[i]) >= NearDuplicate
                              \/ Score(t2, entries[i]) >= NearDuplicate}

AddReturned == last.op = "add" /\ ~last.raised

\* C3 (as claimed): for any t1, t2 with similarity >= 0.98, add(t1, a1)
\* followed by add(t2, a2) leaves exactly one entry for them: the second call
\* creates no new entry, overwrites that entry's answer with a2 and stamps
\* its updated_at.
C3_SecondAddMergesAlways ==
    (AddReturned /\ last.after_add # <<>> /\ NearDup(last.after_add, last.query)) =>
        /\ Len(cache) = last.count_before
        /\ \E i \in 1..Len(cache) :
              /\ ClusterOf(cache, last.after_add, last.query) = {i}
              /\ cache[i].answer = last.answer
              /\ cache[i].updated_at # None

\* the state between the two calls: add(t1, ..) has just appended a new
\* entry, and no older entry is within 0.98 of t2
C3_FreshCluster(t2) ==
    /\ AddReturned
    /\ Len(cache) = last.count_before + 1
    /\ NearDup(last.query, t2)
    /\ \A i \in 1..(Len(cache) - 1) : Score(t2, cache[i]) < NearDuplicate

\* C3 (amended): when no entry stored before the two calls is within 0.98 of
\* t1 or of t2, add(t1, a1) followed by add(t2, a2) leaves exactly one entry
\* for them: the second call creates no new entry, overwrites the answer of
\* the entry the first call created with a2, stamps its updated_at and
\* leaves its query, vector, category and created_at as they were.
C3_SecondAddMergesFresh ==
    [][last'.op = "add" =>
       \A t2 \in Queries, a2 \in Answers, c2 \in OptCategories, now \in Timestamps :
          (C3_FreshCluster(t2) /\ add(t2, a2, c2, now, TRUE, TRUE)) =>
              LET n == Len(cache)
              IN  /\ Len(cache') = n
                  /\ ClusterOf(cache', last.query, t2) = {n}
                  /\ cache' = [cache EXCEPT ![n].answer = a2, ![n].updated_at = now]
                  /\ cache'[n].updated_at \in Timestamps
                  /\ file' = cache']_vars

\* the second of two near-duplicate adds has merged into the entry the first
\* one created, next to an older entry
C3_Witness ==
    /\ AddReturned
    /\ last.after_add # <<>>
    /\ NearDup(last.after_add, last.query)
    /\ Len(cache) = 2 /\ last.count_before = 2
    /\ cache[2].query = last.after_add
    /\ cache[2].answer = last.answer /\ cache[2].updated_at # None
    /\ cache[1].updated_at = None
    /\ Score(last.query, cache[1]) < NearDuplicate

\* ----------------------------------------------------------------- C4
\* the similarity invalidate_related measures: the text it embeds is the
\* first MaxTextChars characters
InvScore(text, entry) ==
    cosine_similarity(Embedding(Slice(text, MaxTextChars)), entry.embedding)

\* the entries left when exactly those scoring >= t against text are removed
KeepBelow(entries, text, t) ==
    SelectSeq(entries, LAMBDA e : InvScore(text, e) < t)

InvalidateReturned == last.op = "invalidate_related"

C5_AddThenFindHits ==
    AddReturned =>
        \A c \in {None, last.category} :
            LET r == FindSimilar(cache, last.query, c, <<SIMILARITY_THRESHOLD>>)
            IN  r.hit /\ r.answer = last.answer

\* ----------------------------------------------------------------- C6
\* the entries whose category is c or absent
SameOrNoCategory(entries, c) ==
    SelectSeq(entries, LAMBDA e : e.category = c \/ e.category = None)

\* the entries whose category is c
SameCategory(entries, c) ==
    SelectSeq(entries, LAMBDA e : e.category = c)

\* C6 (as claimed): when find_similar is given a category c, an entry with a
\* different non-null category is excluded from the scan, while an entry
\* with no category is compared like any other and can be returned.
C6_NoCategoryIsScanned ==
    (FindReturned /\ Truthy(last.category)) =>
        last.ret = FindSimilar(SameOrNoCategory(cache, last.category),
                               last.query, None, last.threshold)

\* C6 (amended): when find_similar is given a category c, only the entries
\* whose category equals c are scanned: an entry with a different non-null
\* category and an entry with no category are both excluded and are never
\* returned as the hit.
C6_OnlySameCategoryIsScanned ==
    (FindReturned /\ Truthy(last.category)) =>
        /\ last.ret = FindSimilar(SameCategory(cache, last.category),
                                  last.query, None, last.threshold)
        /\ last.ret.hit =>
               \E i \in 1..Len(cache) :
                   /\ cache[i].category = last.category
                   /\ cache[i].query = last.ret.original_query
                   /\ cache[i].answer = last.ret.answer

\* a lookup with a category returned the entry of that category although an
\* entry without category scores higher
C6_Witness ==
    /\ FindReturned /\ last.category = "css"
    /\ last.ret.hit
    /\ \E i \in 1..Len(cache) :
          /\ cache[i].category = None
          /\ Score(last.query, cache[i]) > last.ret.similarity

\* ----------------------------------------------------------------- C7
\* an entry invalidate_related(.., category=c) never touches
Protected(entry, c) == entry.category # None /\ entry.category # c

KeepProtectedOrBelow(entries, text, c, t) ==
    SelectSeq(entries, LAMBDA e : Protected(e, c) \/ InvScore(text, e) < t)

C8_ThresholdMonotone ==
    \A q \in LookupQueries, c \in OptCategories :
        \A t1, t2 \in ThresholdValues :
            t1 <= t2 =>
                LET r1 == FindSimilar(cache, q, c, <<t1>>)
                    r2 == FindSimilar(cache, q, c, <<t2>>)
                IN  /\ r2.hit => r1 = r2
                    /\ ~r1.hit => ~r2.hit

\* a lookup hit at its threshold on a cache of two scoring entries, and the
\* same lookup misses at a higher threshold
C8_Witness ==
    /\ FindReturned /\ last.ret.hit
    /\ Len(cache) = 2
    /\ \A i \in 1..2 : Score(last.query, cache[i]) >= Target(last.threshold)
    /\ \E t2 \in ThresholdValues :
          /\ t2 > Target(last.threshold)
          /\ ~FindSimilar(cache, last.query, last.category, <<t2>>).hit

C10_FlowState ==
    /\ (flow.pc = "generate" \/ flow.generated > 0) =>
           (flow.looked /\ ~flow.cached.hit)
    /\ (flow.pc \in {"hit", "done"} /\ flow.looked /\ flow.cached.hit) =>
           (flow.generated = 0 /\ flow.adds = 0)
    /\ (flow.pc = "done" /\ flow.looked /\ flow.cached.hit) =>
           flow.answer_text = flow.cached.answer
    /\ (flow.pc = "done" /\ flow.looked /\ ~flow.cached.hit) =>
           /\ flow.generated = 1 /\ flow.adds = 1
           /\ last.op = "add" /\ ~last.raised
           /\ last.query = flow.query /\ last.answer = flow.answer_text
           /\ \E i \in 1..Len(cache) : cache[i].answer = flow.answer_text
           /\ file = cache

C11_NoFailureTextCached ==
    /\ \A i \in 1..Len(cache) : cache[i].answer # ErrorText
    /\ \A i \in 1..Len(file) : file[i].answer # ErrorText
    /\ (flow.looked /\ flow.cached.hit) => flow.cached.answer # ErrorText

\* ---------------------------------------------------------------- C12
\* C12: a lookup that fails (find_similar raises because the query cannot
\* be embedded) does not stop the query: the page goes on to generation.
C12_LookupFailureStillGenerates ==
    [][(flow.pc = "lookup" /\ last'.op = "find_similar" /\ last'.raised)
          => flow'.pc = "generate"]_vars

\* ---------------------------------------------------------------- C13
\* the record the page action just wrote
Written == GetById(store', ilast'.id)

RecordWritten == store' # store /\ ilast'.op \in {"register", "edit"}

Overlaps(practice, entry) ==
    cosine_similarity(Embedding(CreateSearchText(practice)), entry.embedding)
        >= InvalidateDefault

\* C13: when a record is registered or edited, every cache entry whose
\* query has similarity >= 0.60 to the record's text is gone from the cache
\* (in memory and in answer_cache.json) once the write has completed.
C13_WriteDropsOverlapping ==
    [][RecordWritten =>
          /\ \A i \in 1..Len(cache) :
                 Overlaps(Written, cache[i])
                    => \A j \in 1..Len(cache') : cache'[j].query # cache[i].query
          /\ \A i \in 1..Len(file) :
                 Overlaps(Written, file[i])
                    => \A j \in 1..Len(file') : file'[j].query # file[i].query]_vars

\* ---------------------------------------------------------------- C14
StoreWrites == {"register", "edit", "generate_svg", "delete", "split"}

\* C14: after every completed page action that writes the record store,
\* the ids in the index are exactly the ids of the live records, one entry
\* per id.
C14_IndexMatchesStore ==
    ilast.op \in StoreWrites =>
        /\ CollectionIds(index) = StoreIds(store)
        /\ Cardinality(CollectionIds(index)) = Len(index)

\* ---------------------------------------------------------------- C15
EntriesOf(coll, id) == SelectSeq(coll, LAMBDA e : e.id = id)

\* C15: once add_practice has been called for a record (here by the edit
\* form), the index holds exactly one entry for that id, and its vector,
\* document and metadata are those derived from the record as it is now,
\* also when the id was indexed before.
C15_UpsertReplaces ==
    ilast.op = "edit" =>
        EntriesOf(index, ilast.id) = <<IndexEntry(GetById(store, ilast.id))>>

\* ---------------------------------------------------------------- C17
\* C17: when load_from_json has returned, the index holds exactly one
\* entry for each record of the store, under the record's id and derived
\* from the record, and no entry for an id that is not in the store,
\* whatever the index held before.
C17_RebuildMirrorsStore ==
    ilast.op = "resync" =>
        /\ CollectionIds(index) \subseteq StoreIds(store)
        /\ \A id \in StoreIds(store) :
               EntriesOf(index, id) = <<IndexEntry(GetById(store, id))>>

\* ---------------------------------------------------------------- C18
\* C18: once add_practice has been called for a record (by the register
\* page or by the edit form), searching for the record's own search text
\* with top_k = 1 can return that record's id, and returns score 1.0.
\* (Entries with equal scores may come in either order, so the record only
\* has to be one of the possible top results.)
C18_UpsertThenQueryFindsIt ==
    ilast.op \in {"register", "edit"} =>
        LET record == GetById(store, ilast.id)
        IN  \E results \in search(index, CreateSearchText(record), None, 1) :
                /\ Len(results) = 1
                /\ results[1].id = ilast.id
                /\ results[1].score = Scale

\* ---------------------------------------------------------------- C16
Queried == ilast.op \in {"search", "search_visuals", "search_images"}

ResultIds(results) == {results[a].id : a \in 1..Len(results)}

CountCategory(coll, c) ==
    Cardinality({i \in 1..Len(coll) : coll[i].metadata.category = c})

Descending(results) ==
    \A a, b \in 1..Len(results) : a < b => results[a].score >= results[b].score

\* C19: a search with a category returns only entries of that category,
\* min(top_k, number of indexed entries of that category) of them, in
\* descending order of score.
C19_CategoryFilterBeforeRanking ==
    (ilast.op = "search" /\ ilast.category \in Categories) =>
        LET n == IF ilast.top_k = 0 THEN SEARCH_TOP_K ELSE ilast.top_k
        IN  /\ \A a \in 1..Len(ilast.results) :
                   ilast.results[a].metadata.category = ilast.category
            /\ Len(ilast.results) = Min(n, CountCategory(index, ilast.category))
            /\ Descending(ilast.results)

\* an entry of another category is nearer to the query than the one returned
C19_Witness ==
    /\ ilast.op = "search" /\ ilast.category = "css" /\ ilast.top_k = 1
    /\ Len(ilast.results) = 1
    /\ \E i \in 1..Len(index) :
           /\ index[i].metadata.category # "css"
           /\ Scale - Distance(Embedding(ilast.query), index[i].embedding)
                  > ilast.results[1].score

\* ---------------------------------------------------------------- C20
ScoreIn(coll, id, query) ==
    LET i == CHOOSE k \in 1..Len(coll) : coll[k].id = id
    IN  Scale - Distance(Embedding(query), coll[i].embedding)

\* the score search reports for the same entry and query
ScoreBySearch(coll, id, query) ==
    LET results == CHOOSE r \in search(coll, query, None, Len(coll)) : TRUE
        a == CHOOSE k \in 1..Len(results) : results[k].id = id
    IN  results[a].score

\* C20: every result of search_visuals has has_svg or has_html, every
\* result of search_images has has_image, every result has score >=
\* min_score, and the score is 1 - distance, the one search reports for
\* the same entry.
C20_FilteredResults ==
    ilast.op \in {"search_visuals", "search_images"} =>
        \A a \in 1..Len(ilast.results) :
            LET x == ilast.results[a]
            IN  /\ IF ilast.op = "search_visuals"
                   THEN x.metadata.has_svg \/ x.metadata.has_html
                   ELSE x.metadata.has_image
                /\ x.score >= ilast.min_score
                /\ x.score = Scale - x.distance
                /\ x.score = ScoreBySearch(index, x.id, ilast.query)

\* an entry without an image scores higher than the returned one and is
\* left out
C20_Witness ==
    /\ ilast.op = "search_images" /\ Len(ilast.results) = 1
    /\ \E i \in 1..Len(index) :
           /\ ~index[i].metadata.has_image
           /\ ScoreIn(index, index[i].id, ilast.query) > ilast.results[1].score

\* --------------------------------------------------------- embedding module
MaxBatch == 3

\* the documents load_from_json hands to get_embeddings_batch
BatchTexts == {TQ, TD, TE}

TextLists == UNION {[1..n -> BatchTexts] : n \in 0..MaxBatch}

\* genai.embed_content with a list of texts: one vector per text, in the
\* order of the texts
EmbedContentList(texts) == [i \in 1..Len(texts) |-> Embedding(texts[i])]

\* as SequentialEmbed, but each new vector is put in front of the list
RECURSIVE SequentialEmbed_Prepend(_, _, _, _)
SequentialEmbed_Prepend(texts, i, itemOk, embeddings) ==
    IF i > Len(texts)
    THEN [raised |-> FALSE, embeddings |-> embeddings, calls |-> Len(texts)]
    ELSE IF ~itemOk[i]
         THEN [raised |-> TRUE, embeddings |-> embeddings, calls |-> i]
         ELSE SequentialEmbed_Prepend(texts, i + 1, itemOk,
                                      <<Embedding(texts[i])>> \o embeddings)

\* the fallback loop of get_embeddings_batch from text i on; get_embedding
\* re-raises the provider's failure, which ends the loop and the call
RECURSIVE SequentialEmbed(_, _, _, _)
SequentialEmbed(texts, i, itemOk, embeddings) ==
    IF i > Len(texts)
    THEN [raised |-> FALSE, embeddings |-> embeddings, calls |-> Len(texts)]
    ELSE IF ~itemOk[i]
         THEN [raised |-> TRUE, embeddings |-> embeddings, calls |-> i]
         ELSE SequentialEmbed(texts, i + 1, itemOk,
                              Append(embeddings, Embedding(texts[i])))

\* what get_embeddings_batch returns or raises, and how often it has called
\* the provider: batchOk is the outcome of the call with the whole list,
\* itemOk[i] the outcome of the single call for texts[i]
GetEmbeddingsBatch(texts, batchOk, itemOk) ==
    IF Len(texts) = 0
    THEN [raised |-> FALSE, embeddings |-> <<>>, calls |-> 0, fallback |-> FALSE]
    ELSE IF batchOk
         THEN [raised |-> FALSE, embeddings |-> EmbedContentList(texts), calls |-> 1,
               fallback |-> FALSE]
         ELSE LET r == SequentialEmbed(texts, 1, itemOk, <<>>)
              IN  [raised |-> r.raised, embeddings |-> r.embeddings,
                   calls |-> 1 + r.calls, fallback |-> TRUE]

\* the call as its caller sees it
BatchCall(texts, batchOk, itemOk) ==
    LET r == GetEmbeddingsBatch(texts, batchOk, itemOk)
    IN  [op |-> "get_embeddings_batch", texts |-> texts,
         item_ok |-> itemOk, raised |-> r.raised,
         fallback |-> r.fallback, calls |-> r.calls,
         ret |-> IF r.raised THEN <<>> ELSE r.embeddings]

get_embeddings_batch(texts, batchOk, itemOk) ==
    /\ elast' = BatchCall(texts, batchOk, itemOk)
    /\ UNCHANGED <<cacheVars, pageVars, indexVars, other, rebuild>>

EmbedNext == \E texts \in TextLists, batchOk \in BOOLEAN :
                 \E itemOk \in [1..Len(texts) -> BOOLEAN] :
                     get_embeddings_batch(texts, batchOk, itemOk)

EmbedSpec == Init /\ [][EmbedNext]_vars

\* ---------------------------------------------------------------- C21
BatchReturned == elast.op = "get_embeddings_batch" /\ ~elast.raised

\* C21: get_embeddings_batch(texts) returns exactly one vector per input
\* text, in input order, both when the single batch call succeeds and when
\* it fails and the texts are embedded one by one; for an empty input it
\* returns an empty list without calling the provider.
C21_OneVectorPerText ==
    /\ BatchReturned =>
          /\ Len(elast.ret) = Len(elast.texts)
          /\ \A i \in 1..Len(elast.texts) : elast.ret[i] = Embedding(elast.texts[i])
    /\ (elast.op = "get_embeddings_batch" /\ Len(elast.texts) = 0) =>
          /\ ~elast.raised
          /\ elast.ret = <<>>
          /\ elast.calls = 0

\* the batch call failed and the one-by-one fallback returned the vectors of
\* three texts, the first and the last of them different
C21_Witness ==
    /\ BatchReturned
    /\ elast.fallback
    /\ Len(elast.texts) = 3
    /\ elast.texts[1] # elast.texts[3]
    /\ elast.calls = 4

\* ---------------------------------------------------------------- C22
\* C22: when the batch call fails and the one-by-one fallback fails for some
\* but not all of the texts, get_embeddings_batch still returns; it raises
\* only when every single text fails.
C22_PartialFailureReturns ==
    (elast.op = "get_embeddings_batch" /\ elast.raised) =>
        \A i \in 1..Len(elast.texts) : ~elast.item_ok[i]

\* ------------------------------------------ cache API, collaborators failing
\* AnswerCache.get_stats
get_stats ==
    /\ last' = [op |-> "get_stats", raised |-> FALSE, count |-> Len(cache),
                categories |-> {cache[i].category : i \in 1..Len(cache)} \ {None, ""}]
    /\ UNCHANGED <<cache, file, torn, drive>>

FaultTexts == {TQ, TBlank}

FaultThresholds == {<<>>, <<InvalidateDefault>>}

\* the calls of one instance when the embedding provider or the write of
\* answer_cache.json may fail
FaultFind == /\ \E q \in FaultTexts, c \in {None, "css"}, t \in FaultThresholds,
                   embedOk \in BOOLEAN : find_similar(q, c, t, embedOk)
             /\ UNCHANGED <<pageVars, indexVars, auxVars>>

FaultAdd == /\ \E q \in {TQ, TE}, now \in Timestamps,
                  embedOk \in BOOLEAN, saveOk \in BOOLEAN :
                   add(q, "A1", None, now, embedOk, saveOk)
            /\ UNCHANGED <<pageVars, indexVars, auxVars>>

FaultClear == /\ \E saveOk \in BOOLEAN : clear(saveOk)
              /\ UNCHANGED <<pageVars, indexVars, auxVars>>

FaultInvalidate == /\ \E x \in FaultTexts, c \in {None, "css"},
                         embedOk \in BOOLEAN, saveOk \in BOOLEAN :
                          invalidate_related(x, c, InvalidateDefault, embedOk, saveOk)
                   /\ UNCHANGED <<pageVars, indexVars, auxVars>>

CacheFaultNext ==
    \/ FaultFind
    \/ FaultAdd
    \/ FaultClear
    \/ FaultInvalidate
    \/ get_stats /\ UNCHANGED <<pageVars, indexVars, auxVars>>

CacheFaultSpec == Init /\ [][CacheFaultNext]_vars

\* ---------------------------------------------------------------- C23
\* C23: when the embedding provider fails, find_similar, add and
\* invalidate_related each propagate the failure to their caller, and leave
\* the cache entries, in memory and persisted, unchanged.
C23_EmbedFailurePropagates ==
    [][(last'.op \in {"find_similar", "add", "invalidate_related"} /\ last'.embed_failed) =>
          /\ last'.raised
          /\ cache' = cache
          /\ file' = file]_vars

\* ------------------------------------------------ restarts and the Drive copy
\* a new process, or a new browser session, constructs its AnswerCache
Restart(downloadOk) ==
    /\ LET c == Construct(downloadOk)
       IN  /\ cache' = c.entries
           /\ file' = c.file
           /\ torn' = c.torn
           /\ last' = [op |-> "__init__", raised |-> FALSE, found_torn |-> c.torn,
                       downloaded |-> c.downloaded]
    /\ UNCHANGED <<drive, pageVars, indexVars, auxVars>>

\* a Drive folder that holds no answer_cache.json yet
EmptyDrive == [linked |-> TRUE, has |-> FALSE, entries |-> <<>>]

\* the instance has just been constructed; the local file is missing or was
\* left unparseable by an interrupted write of an earlier process
RestartInit ==
    /\ file = <<>>
    /\ torn \in BOOLEAN
    /\ drive \in {NoDrive, EmptyDrive}
    /\ cache = LoadCache(file, torn)
    /\ last = [op |-> "__init__", raised |-> FALSE, found_torn |-> torn,
               downloaded |-> FALSE]
    /\ page = "none"
    /\ created = TRUE
    /\ session = [k \in SessionKeys |-> None]
    /\ flow = IdleFlow
    /\ NoRecords
    /\ other = <<>>
    /\ elast = [op |-> "init"]
    /\ rebuild = NoRebuild

RestartAdd == /\ \E q \in {TQ, TE}, now \in Timestamps, saveOk \in BOOLEAN :
                     add(q, "A1", None, now, TRUE, saveOk)
              /\ UNCHANGED <<pageVars, indexVars, auxVars>>

RestartInvalidate == /\ \E saveOk \in BOOLEAN :
                            invalidate_related(TQ, None, InvalidateDefault, TRUE, saveOk)
                     /\ UNCHANGED <<pageVars, indexVars, auxVars>>

RestartFind == /\ find_similar(TQ, None, <<>>, TRUE)
               /\ UNCHANGED <<pageVars, indexVars, auxVars>>

RestartNext ==
    \/ \E downloadOk \in BOOLEAN : Restart(downloadOk)
    \/ RestartAdd
    \/ FaultClear
    \/ RestartInvalidate
    \/ RestartFind

RestartSpec == RestartInit /\ [][RestartNext]_vars

\* ---------------------------------------------------------------- C24
\* the instance was loaded from an unparseable file and nothing has been
\* stored since
AfterCorruptStart ==
    \/ last.op = "__init__" /\ last.found_torn
    \/ last.op = "find_similar" /\ torn /\ cache = <<>>

WroteWithoutError ==
    /\ last.op \in {"add", "clear", "invalidate_related"}
    /\ ~last.raised
    /\ last.wrote /\ last.saved
    /\ drive.linked => last.uploaded

C25_WriteFailureKeepsMemory ==
    [][/\ (/\ last'.op \in {"add", "clear", "invalidate_related"}
           /\ ~last'.raised
           /\ last'.wrote /\ ~last'.saved) =>
              CASE last'.op = "add" ->
                       /\ Len(cache') >= Len(cache)
                       /\ \E i \in 1..Len(cache') :
                             /\ cache'[i].answer = last'.answer
                             /\ Score(last'.query, cache'[i]) >= NearDuplicate
                [] last'.op = "clear" -> cache' = <<>>
                [] last'.op = "invalidate_related" ->
                       /\ last'.ret > 0
                       /\ Len(cache') = Len(cache) - last'.ret
                       /\ cache' = KeepProtectedOrBelow(cache, last'.text, last'.category,
                                                        last'.threshold)
       /\ last'.op = "get_stats" =>
              last'.count = Len(cache) /\ cache' = cache
       /\ (last'.op = "find_similar" /\ ~last'.raised) =>
              /\ cache' = cache
              /\ last'.ret = BestMatchContract(cache, last'.query, last'.category,
                                               last'.threshold)]_vars

\* find_similar has served an entry that no write ever stored in the file
C25_Witness ==
    /\ FindReturned
    /\ last.ret.hit
    /\ file = <<>> /\ ~torn
    /\ Len(cache) = 2

\* ---------------------------------------------------------------- C30
\* C30: for any text x of at most 2000 characters and any category c (or
\* none), immediately after invalidate_related(x, category=c) with the
\* default threshold 0.60 returns, find_similar(x, category=c, threshold=t)
\* returns no match for every t >= 0.60.
C30_NoHitAfterInvalidation ==
    [][(/\ last.op = "invalidate_related"
        /\ last.threshold = InvalidateDefault
        /\ TextLen(last.text) <= MaxTextChars
        /\ last'.op = "find_similar" /\ ~last'.raised
        /\ last'.query = last.text
        /\ last'.category = last.category
        /\ Target(last'.threshold) >= InvalidateDefault)
       => ~last'.ret.hit]_vars

\* ------------------------------------------------ load_from_json step by step
\* database.py lines 85-103: the search text of every record read
RebuildDocuments(practices) ==
    [i \in 1..Len(practices) |-> CreateSearchText(practices[i])]

\* as InsertAll, but only the first record reaches the collection
InsertAll_FirstOnly(coll, practices, embeddings) ==
    CollectionAdd(coll, [i \in 1..1 |->
                            [IndexEntry(practices[i]) EXCEPT !.embedding = embeddings[i]]])

\* database.py lines 110-115: one collection.add call with all ids, vectors,
\* metadatas and documents
InsertAll(coll, practices, embeddings) ==
    CollectionAdd(coll, [i \in 1..Len(practices) |->
                            [IndexEntry(practices[i]) EXCEPT !.embedding = embeddings[i]]])

\* lines 56-78: practices.json is read; without records the call returns 0,
\* otherwise every id is deleted from the collection
RebuildStart ==
    /\ rebuild.pc = "idle"
    /\ rebuild' = [pc |-> IF store = <<>> THEN "done" ELSE "cleared",
                   before |-> index, practices |-> store, embeddings |-> <<>>]
    /\ index' = IF store = <<>> THEN index
                ELSE CollectionDelete(index, CollectionIds(index))
    /\ UNCHANGED <<store, ilast, issued, deleted, cacheVars, pageVars, other, elast>>

\* line 107: the documents are embedded; a failure leaves load_from_json
RebuildEmbed(batchOk, itemOk) ==
    /\ rebuild.pc = "cleared"
    /\ elast' = BatchCall(RebuildDocuments(rebuild.practices), batchOk, itemOk)
    /\ rebuild' = IF elast'.raised
                  THEN [rebuild EXCEPT !.pc = "raised"]
                  ELSE [rebuild EXCEPT !.pc = "embedded", !.embeddings = elast'.ret]
    /\ UNCHANGED <<indexVars, cacheVars, pageVars, other>>

\* lines 110-118: the records are inserted and their number is returned
RebuildInsert ==
    /\ rebuild.pc = "embedded"
    /\ index' = InsertAll(index, rebuild.practices, rebuild.embeddings)
    /\ rebuild' = [rebuild EXCEPT !.pc = "done"]
    /\ deleted' = deleted \ StoreIds(rebuild.practices)
    /\ ilast' = [op |-> "resync", count |-> Len(rebuild.practices)]
    /\ UNCHANGED <<store, issued, cacheVars, pageVars, other, elast>>

\* the call has returned or raised and the script run ends
RebuildReturn ==
    /\ rebuild.pc \in {"done", "raised"}
    /\ rebuild' = NoRebuild
    /\ UNCHANGED <<indexVars, cacheVars, pageVars, other, elast>>

DoRebuildEmbed ==
    /\ rebuild.pc = "cleared"
    /\ \E batchOk \in BOOLEAN :
          \E itemOk \in [1..Len(rebuild.practices) -> BOOLEAN] :
              RebuildEmbed(batchOk, itemOk)

\* between two runs of load_from_json the session writes records
BetweenRebuilds ==
    /\ rebuild.pc = "idle"
    /\ DoRegisterSave \/ DoDeleteRecord

\* one session rebuilds its index while this and another session write
\* practices.json
RebuildNext == RebuildStart \/ DoRebuildEmbed \/ RebuildInsert \/ RebuildReturn
               \/ BetweenRebuilds \/ DoOtherSessionDelete

RebuildSpec == IndexInit /\ [][RebuildNext]_vars

\* ---------------------------------------------------------------- C26
\* the entries load_from_json builds from the records it has read
NewSet(practices) == [i \in 1..Len(practices) |-> IndexEntry(practices[i])]

\* C26: load_from_json inserts the rebuilt vectors as a set: during and
\* after a rebuild the index holds its content from before the rebuild,
\* nothing, or the complete new set, never just part of the new set; when
\* the batch embedding fails after the clear step the failure leaves
\* load_from_json and the index is left empty.
C26_RebuildAllOrNothing ==
    rebuild.pc # "idle" =>
        /\ index \in {rebuild.before, <<>>, NewSet(rebuild.practices)}
        /\ rebuild.pc \in {"cleared", "embedded", "raised"} => index = <<>>
        /\ rebuild.pc = "raised" => elast.raised
        /\ rebuild.pc = "embedded" => ~elast.raised
        /\ rebuild.pc = "done" =>
              index = IF rebuild.practices = <<>> THEN rebuild.before
                      ELSE NewSet(rebuild.practices)

\* two records were read and the old vectors cleared; the batch call failed,
\* the first text was embedded alone, the second failed: the index is empty
C26_Witness ==
    /\ rebuild.pc = "raised"
    /\ Len(rebuild.practices) = 2
    /\ rebuild.before # <<>>
    /\ elast.calls = 3
    /\ index = <<>>

\* ------------------------------------------- two instances on one cache file
\* a second AnswerCache is constructed: by the code-learning page on its
\* first question (pages/7 lines 795-796), or by another process
OtherConstruct(downloadOk) ==
    /\ other = <<>>
    /\ LET c == Construct(downloadOk)
       IN  /\ other' = <<c.entries>>
           /\ file' = c.file
           /\ torn' = c.torn
    /\ last' = [op |-> "other_init", raised |-> FALSE]
    /\ UNCHANGED <<cache, drive, pageVars, indexVars, elast, rebuild>>

\* AnswerCache.add on the second instance
OtherAdd(query, answer, now, saveOk) ==
    /\ other # <<>>
    /\ LET entries == AddEntries(other[1], query, answer, None, now)
       IN  /\ Len(entries) <= MaxEntries
           /\ other' = <<entries>>
           /\ file' = SaveCache(entries, saveOk)
           /\ \E w \in WriteOutcomes(entries, saveOk) :
                  /\ torn' = w.torn
                  /\ drive' = w.drive
                  /\ last' = [op |-> "other_add", query |-> query, answer |-> answer,
                              raised |-> FALSE, wrote |-> TRUE, saved |-> saveOk,
                              uploaded |-> w.uploaded]
    /\ UNCHANGED <<cache, pageVars, indexVars, elast, rebuild>>

FirstAdd == /\ \E q \in {TQ, TE}, now \in Timestamps : add(q, "A1", None, now, TRUE, TRUE)
            /\ UNCHANGED <<pageVars, indexVars, auxVars>>

TwoInstanceNext ==
    \/ FirstAdd
    \/ OtherConstruct(TRUE)
    \/ \E q \in {TQ, TE}, now \in Timestamps : OtherAdd(q, "A2", now, TRUE)
    \/ get_stats /\ UNCHANGED <<pageVars, indexVars, auxVars>>

TwoInstanceSpec == Init /\ [][TwoInstanceNext]_vars

\* ---------------------------------------------------------------- C27
\* the queries of the entries in a list
QueriesOf(entries) == {entries[i].query : i \in 1..Len(entries)}

\* C27: with two cache instances loaded from the same cache file, each add
\* writes the whole cache of its own instance back: after a completed add
\* the file holds exactly the writer's entries, so what the other instance
\* had added is overwritten without any error.
C27_LastWriterWins ==
    [][/\ (last'.op = "add" /\ ~last'.raised /\ last'.saved) => file' = cache'
       /\ (last'.op = "other_add" /\ last'.saved) => file' = other'[1]]_vars

\* both instances were loaded from the empty file, each has added an entry
\* without error, and the file lacks the entry of the first writer
C27_Witness ==
    /\ other # <<>>
    /\ last.op = "other_add" /\ ~last.raised /\ last.saved
    /\ Len(cache) = 1 /\ Len(other[1]) = 1
    /\ cache[1].query \notin QueriesOf(file)
    /\ QueriesOf(file) = QueriesOf(other[1])

\* ------------------------------------------------- one query, index and cache
\* search page, lines 225-237 and 494-503: the query is looked up in the
\* index; the answer section runs only when there are search results
QuerySubmit(query, selected_category, cache_threshold) ==
    /\ page = "search" /\ flow.pc = "idle"
    /\ \E results \in search(index, query, CategoryArg(selected_category), SEARCH_TOP_K) :
          /\ ilast' = [op |-> "search", query |-> query,
                       category |-> CategoryArg(selected_category),
                       top_k |-> SEARCH_TOP_K, results |-> results]
          /\ flow' = IF results = <<>>
                     THEN [IdleFlow EXCEPT !.pc = "done", !.query = query,
                                           !.selected_category = selected_category,
                                           !.embeds = 1]
                     ELSE [SubmitFlow(query, selected_category, cache_threshold)
                               EXCEPT !.embeds = 1]
    /\ UNCHANGED <<cache, file, torn, drive, last, page, created, session>>
    /\ UNCHANGED <<store, index, issued, deleted, auxVars>>

\* a session on the search page whose index was built from practices.json
QueryInit ==
    /\ cache = <<>>
    /\ file = <<>>
    /\ last = [op |-> "init"]
    /\ page = "search"
    /\ created = TRUE
    /\ session = [k \in SessionKeys |-> None]
    /\ flow = IdleFlow
    /\ store \in {<<>>, <<WithId(HtmlPreview, 1)>>}
    /\ index = load_from_json(<<>>, store)
    /\ ilast = [op |-> "init"]
    /\ issued = Len(store)
    /\ deleted = {}
    /\ PlainStart

QueryNext ==
    \/ \E q \in FlowQueries, c \in SelectedCategories, t \in PageThresholds :
           QuerySubmit(q, c, t)
    \/ DoLookup
    \/ UseCached
    \/ DoGenerate
    \/ DoWrite
    \/ Finish

QuerySpec == QueryInit /\ [][QueryNext]_vars

\* ---------------------------------------------------------------- C29
\* C29: while one incoming query is handled (index query, cache lookup and,
\* on a miss, cache write), the query text is embedded exactly once: when the
\* handling is done the embedding provider has been invoked once for it.
C29_QueryEmbeddedOnce ==
    (flow.pc = "done" /\ ilast.op = "search") => flow.embeds = 1

====
